---- MODULE Spec2Model ----
(***************************************************************************)
(* Signal listener of cqueues (src/src/signal.c, kqueue backend).          *)
(*                                                                         *)
(* The listener owns a struct signalfd S = (fd, desired, polling, pending) *)
(* and one kernel event queue.  The kernel side is the variable K: the     *)
(* open descriptors, the signals that have an EVFILT_SIGNAL filter on the  *)
(* queue, and per filter the number of deliveries recorded since the       *)
(* filter was last fetched (EVFILT_SIGNAL implies EV_CLEAR: a fetch resets *)
(* the count and leaves the filter registered).                            *)
(*                                                                         *)
(* Every Lua entry point (listen, wait, timeout, pollfd, events, __gc) is  *)
(* one action that runs the whole C function.  Signal delivery by the OS   *)
(* is an action of its own.  Kernel failures are inputs of the actions.    *)
(***************************************************************************)
EXTENDS Integers, Sequences, FiniteSets

\* ------------------------------------------------------------------ bounds

\* Signal numbers the caller and the OS use in the model: 1..MaxSigno.
MaxSigno == 2
\* Cap of the kernel's per-filter delivery count (kn_data).
MaxData == 2
\* Cap of the number of EINTR results one sfd_query may see before its poll
\* goes through.
MaxEintr == 1

\* The sets given to sfd_diff on its own hold the MaxDiff lowest and the
\* MaxDiff highest signal numbers of its scan.
MaxDiff == 2

\* End of the scan of sfd_diff: for (signo = 1; signo < 32; signo++).
SIGNO_END == 32

Signals == 1..MaxSigno
\* Descriptor numbers kqueue() may hand out.
Descriptors == {3}

\* errno values, and 0 written "OK".
OK == "OK"
EMFILE == "EMFILE"
ENOMEM == "ENOMEM"
EBADF == "EBADF"
EINTR == "EINTR"

\* struct timespec values: { 0, 0 }, and a null pointer (wait without limit).
ZeroTimespec == <<0, 0>>
NullTimespec == <<>>

\* LSL_CLASS, the metatable of the listener userdata.
LSL_CLASS == "Signal Listener"

\* Lua values a call returns.
LNil == [t |-> "nil"]
LNumber(n) == [t |-> "number", v |-> n]
LString(s) == [t |-> "string", v |-> s]
LUserdata(class) == [t |-> "userdata", v |-> class]

VARIABLES
  S,       \* struct signalfd of the listener userdata
  K,       \* kernel: descriptor table and the event queue behind S.fd
  lstate,  \* the userdata in the Lua state: "none", "active", "raised", "collected";
           \* "polled" while a wait is between its poll and its sfd_update
  last,    \* outcome of the last call into the module
  unret,   \* history: signals delivered (and recorded) since they were last returned by wait
  fresh,   \* history: a delivery was recorded since the last wait call
  failed,  \* history: some kernel call of this listener has failed
  track    \* history: one delivery that is followed from the OS to the caller

vars == <<S, K, lstate, last, unret, fresh, failed, track>>

\* --------------------------------------------------------------- sigset_t

sigemptyset == {}
sigaddset(set, signo) == set \cup {signo}
sigdelset(set, signo) == set \ {signo}
sigismember(set, signo) == signo \in set

Min(set) == CHOOSE x \in set : \A y \in set : x <= y

\* ----------------------------------------------------------------- kernel

NoData == [s \in Signals |-> 0]
KernelInit == [open |-> {}, reg |-> {}, data |-> NoData]

\* kqueue(): a new descriptor d, or -1.
kqueue(k, d, fail) ==
  IF fail THEN [K |-> k, fd |-> -1, error |-> EMFILE]
  ELSE [K |-> [k EXCEPT !.open = @ \cup {d}], fd |-> d, error |-> OK]

\* close(fd): the queue and its filters go with the descriptor; close(-1) is EBADF.
close(k, fd) ==
  IF fd \in k.open THEN [open |-> k.open \ {fd}, reg |-> {}, data |-> NoData] ELSE k

\* kevent(fd, &event, 1, 0, 0, 0) with EV_ADD: a new filter starts with no
\* recorded delivery, an existing one is left as it is.
kevent_add(k, signo) == [k EXCEPT !.reg = @ \cup {signo}]

\* kevent(fd, &event, 1, 0, 0, 0) with EV_DELETE.
kevent_delete(k, signo) ==
  [k EXCEPT !.reg = @ \ {signo}, !.data = [@ EXCEPT ![signo] = 0]]

\* Filters with a recorded delivery: what a poll can report.
Triggered(k) == {s \in k.reg : k.data[s] > 0}

\* Variant of kevent_fetch for a filter that is taken off the queue when it
\* is reported (EV_ONESHOT).
kevent_fetch_oneshot(k, e) ==
  [k EXCEPT !.reg = @ \ {e}, !.data = [@ EXCEPT ![e] = 0]]

\* kevent(fd, 0, 0, &event, 1, timeout) reporting filter e: its count is cleared.
kevent_fetch(k, e) == [k EXCEPT !.data = [@ EXCEPT ![e] = 0]]

\* The OS delivers signo to the process: recorded by a registered filter.
kernel_deliver(k, signo) ==
  IF signo \in k.reg /\ k.data[signo] < MaxData
  THEN [k EXCEPT !.data = [@ EXCEPT ![signo] = @ + 1]]
  ELSE k

\* ------------------------------------------------------------- signalfd

sfd_preinit == [fd |-> -1, desired |-> sigemptyset, polling |-> sigemptyset,
                pending |-> sigemptyset]

sfd_init(s, k, d, fail) ==
  LET r == kqueue(k, d, fail)
  IN [S |-> [s EXCEPT !.fd = r.fd], K |-> r.K, error |-> r.error]

\* Variant of sfd_destroy that resets the struct and leaves the descriptor open.
sfd_destroy_noclose(s, k) == [S |-> sfd_preinit, K |-> k]

\* Variant of sfd_destroy that closes the descriptor and leaves the struct as
\* it is.
sfd_destroy_nopreinit(s, k) == [S |-> s, K |-> close(k, s.fd)]

sfd_destroy(s, k) == [S |-> sfd_preinit, K |-> close(k, s.fd)]

\* Variant of sfd_diff whose scan starts at signo = 2.
sfd_diff_from2(a, b) ==
  LET D == {signo \in (a \ b) \cup (b \ a) : 2 <= signo /\ signo < SIGNO_END}
  IN IF D = {} THEN 0 ELSE Min(D)

\* Variant of sfd_diff whose scan runs downwards from 31.
sfd_diff_desc(a, b) ==
  LET D == {signo \in (a \ b) \cup (b \ a) : 1 <= signo /\ signo < SIGNO_END}
  IN IF D = {} THEN 0 ELSE CHOOSE x \in D : \A y \in D : y <= x

\* Variant of sfd_diff that looks for the members of a that b lacks.
sfd_diff_minus(a, b) ==
  LET D == {signo \in a \ b : 1 <= signo /\ signo < SIGNO_END}
  IN IF D = {} THEN 0 ELSE Min(D)

\* sfd_diff: the first signo of the scan for (signo = 1; signo < 32; signo++)
\* that is a member of exactly one of a and b, or 0 when the scan finds none.
sfd_diff(a, b) ==
  LET D == {signo \in (a \ b) \cup (b \ a) : 1 <= signo /\ signo < SIGNO_END}
  IN IF D = {} THEN 0 ELSE Min(D)

\* sfd_update: bad is the signal whose kevent() change the kernel rejects in
\* this call (0: none).  ops lists the kevent() changes attempted.
RECURSIVE sfd_update_loop(_, _, _, _)
sfd_update_loop(s, k, bad, ops) ==
  LET signo == sfd_diff(s.desired, s.polling) IN
  IF signo = 0 THEN [S |-> s, K |-> k, ops |-> ops, error |-> OK]
  ELSE IF sigismember(s.desired, signo)
  THEN IF signo = bad
       THEN [S |-> s, K |-> k, ops |-> Append(ops, <<"EV_ADD", signo>>), error |-> ENOMEM]
       ELSE sfd_update_loop([s EXCEPT !.polling = sigaddset(@, signo)],
                            kevent_add(k, signo), bad,
                            Append(ops, <<"EV_ADD", signo>>))
  ELSE IF signo = bad
       THEN [S |-> s, K |-> k, ops |-> Append(ops, <<"EV_DELETE", signo>>), error |-> ENOMEM]
       ELSE sfd_update_loop([s EXCEPT !.polling = sigdelset(@, signo)],
                            kevent_delete(k, signo), bad,
                            Append(ops, <<"EV_DELETE", signo>>))

\* Variant of sfd_update with "if" for "while": one difference per call.
sfd_update_once(s, k, bad) ==
  LET signo == sfd_diff(s.desired, s.polling) IN
  IF signo = 0 THEN [S |-> s, K |-> k, ops |-> <<>>, error |-> OK]
  ELSE IF signo = bad
  THEN [S |-> s, K |-> k, ops |-> <<<<"EV_ADD", signo>>>>, error |-> ENOMEM]
  ELSE [S |-> [s EXCEPT !.polling = sigaddset(@, signo)], K |-> kevent_add(k, signo),
        ops |-> <<<<"EV_ADD", signo>>>>, error |-> OK]

\* Variant of sfd_update that arms every desired signal on every call, whether
\* it is marked as polled or not.
RECURSIVE sfd_update_all_loop(_, _, _, _, _)
sfd_update_all_loop(s, k, bad, ops, signo) ==
  IF ~(signo < SIGNO_END) \/ {x \in s.desired : x >= signo} = {}
  THEN [S |-> s, K |-> k, ops |-> ops, error |-> OK]
  ELSE IF ~sigismember(s.desired, signo)
  THEN sfd_update_all_loop(s, k, bad, ops, signo + 1)
  ELSE IF signo = bad
  THEN [S |-> s, K |-> k, ops |-> Append(ops, <<"EV_ADD", signo>>), error |-> ENOMEM]
  ELSE sfd_update_all_loop([s EXCEPT !.polling = sigaddset(@, signo)],
                           kevent_add(k, signo), bad,
                           Append(ops, <<"EV_ADD", signo>>), signo + 1)

sfd_update_all(s, k, bad) == sfd_update_all_loop(s, k, bad, <<>>, 1)

\* Variant of sfd_update that notes the error of a rejected change and goes
\* on with the differences after it.
RECURSIVE sfd_update_skip_loop(_, _, _, _, _, _)
sfd_update_skip_loop(s, k, bad, ops, todo, error) ==
  IF todo = {} THEN [S |-> s, K |-> k, ops |-> ops, error |-> error]
  ELSE LET signo == Min(todo)
       IN IF signo = bad
          THEN sfd_update_skip_loop(s, k, bad, Append(ops, <<"EV_ADD", signo>>),
                                    todo \ {signo}, ENOMEM)
          ELSE sfd_update_skip_loop([s EXCEPT !.polling = sigaddset(@, signo)],
                                    kevent_add(k, signo), bad,
                                    Append(ops, <<"EV_ADD", signo>>),
                                    todo \ {signo}, error)

sfd_update_skip(s, k, bad) ==
  sfd_update_skip_loop(s, k, bad, <<>>, s.desired \ s.polling, OK)

sfd_update(s, k, bad) == sfd_update_loop(s, k, bad, <<>>)

\* kevent(fd, 0, 0, &event, 1, timeout): fail is a kernel error other than
\* EINTR; e is the filter the kernel reports (0: none is triggered), data its
\* delivery count.  With nothing triggered the call returns 0 at once for a
\* zero timeout and has to wait otherwise.
kevent_poll(k, timeout, fail, e) ==
  IF fail
  THEN [K |-> k, n |-> -1, ident |-> 0, data |-> 0, errno |-> EBADF, blocked |-> FALSE]
  ELSE IF e # 0
  THEN [K |-> kevent_fetch(k, e), n |-> 1, ident |-> e, data |-> k.data[e],
        errno |-> OK, blocked |-> FALSE]
  ELSE [K |-> k, n |-> 0, ident |-> 0, data |-> 0, errno |-> OK,
        blocked |-> timeout # ZeroTimespec]

\* kevent(fd, 0, 0, &event, 1, timeout) cut short by a signal handler: -1 with
\* errno EINTR, nothing fetched.
kevent_eintr(k) ==
  [K |-> k, n |-> -1, ident |-> 0, data |-> 0, errno |-> EINTR, blocked |-> FALSE]

\* What the kernel may report to a poll: one triggered filter, or nothing when
\* none is triggered.
Reportable(k) == IF Triggered(k) = {} THEN {0} ELSE Triggered(k)

\* What a call did with the kernel: event is the signal its poll fetched (0:
\* none) and data the delivery count reported with it; ops are the kevent()
\* changes it attempted; polls counts its kevent() polls, eintrs those of them
\* that ended with EINTR, pollerr is the errno of the last poll; timeouts are
\* the timeouts it gave them, blocked tells that a poll had to wait.
NoTrace == [event |-> 0, data |-> 0, ops |-> <<>>, polls |-> 0, eintrs |-> 0,
            pollerr |-> OK, timeouts |-> {}, blocked |-> FALSE]

\* Variant of sfd_query_timeout: a null timeout pointer.
sfd_query_timeout_null == NullTimespec

\* The timeout sfd_query gives its poll: &(struct timespec){ 0, 0 }.
sfd_query_timeout == ZeroTimespec

\* Variant of sfd_query_event that takes event.data for the signal number.
sfd_query_event_data(s, p) ==
  IF p.n = 1
  THEN [s EXCEPT !.pending = sigaddset(@, p.data), !.polling = sigdelset(@, p.data)]
  ELSE s

\* Variant of sfd_query_event that leaves the signal marked as polled.
sfd_query_event_keep(s, p) ==
  IF p.n = 1 THEN [s EXCEPT !.pending = sigaddset(@, p.ident)] ELSE s

\* sfd_query on a poll result of n == 1: the signal becomes pending and is no
\* longer marked as polled.  Only EVFILT_SIGNAL filters are on the queue.
sfd_query_event(s, p) ==
  IF p.n = 1
  THEN [s EXCEPT !.pending = sigaddset(@, p.ident), !.polling = sigdelset(@, p.ident)]
  ELSE s

\* Variant of sfd_query_again without the test for EINTR.
sfd_query_again_never(errno) == FALSE

\* sfd_query on a poll result of n == -1: if (errno == EINTR) goto retry.
sfd_query_again(errno) == errno = EINTR

\* sfd_query up to its call of sfd_update: the first eintr polls are cut short
\* with EINTR; the poll after them fails (fail), or reports e.  polls and
\* eintrs count the polls made so far and those of them that ended with EINTR.
\* n is the result of the last poll.
RECURSIVE sfd_query_retry(_, _, _, _, _, _, _)
sfd_query_retry(s, k, eintr, fail, e, polls, eintrs) ==
  LET p == IF eintr > 0 THEN kevent_eintr(k)
           ELSE kevent_poll(k, sfd_query_timeout, fail, e)
      ne == IF p.n = -1 /\ p.errno = EINTR THEN eintrs + 1 ELSE eintrs
      t == [event |-> p.ident, data |-> p.data, ops |-> <<>>, polls |-> polls + 1,
            eintrs |-> ne, pollerr |-> p.errno,
            timeouts |-> {sfd_query_timeout}, blocked |-> p.blocked]
  IN IF p.n = -1
     THEN IF sfd_query_again(p.errno)
          THEN sfd_query_retry(s, p.K, eintr - 1, fail, e, polls + 1, ne)
          ELSE [S |-> s, K |-> p.K, n |-> p.n, error |-> p.errno, trace |-> t]
     ELSE [S |-> sfd_query_event(s, p), K |-> p.K, n |-> p.n, error |-> OK, trace |-> t]

\* sfd_query from its call of sfd_update on: q is what the polling left; bad
\* as in sfd_update.
sfd_query_update(q, bad) ==
  LET u == sfd_update(q.S, q.K, bad)
  IN [S |-> u.S, K |-> u.K, error |-> u.error, trace |-> [q.trace EXCEPT !.ops = u.ops]]

sfd_query(s, k, eintr, fail, e, bad) ==
  LET q == sfd_query_retry(s, k, eintr, fail, e, 0, 0)
  IN IF q.n = -1
     THEN [S |-> q.S, K |-> q.K, error |-> q.error, trace |-> q.trace]
     ELSE sfd_query_update(q, bad)

\* ------------------------------------------------------------ Lua methods

\* Outcome of a call: error is OK when the function returned and the errno
\* when it raised a Lua error; ret are the Lua values it returned; the other
\* fields are its trace.
Outcome(op, error, ret, t) ==
  [op |-> op, error |-> error, ret |-> ret, event |-> t.event, data |-> t.data,
   ops |-> t.ops, polls |-> t.polls, eintrs |-> t.eintrs, pollerr |-> t.pollerr,
   timeouts |-> t.timeouts, blocked |-> t.blocked]

NoCall == Outcome("none", OK, <<>>, NoTrace)

\* lsl_listen with the signal numbers of des as arguments.
lsl_listen(k, des, d, initFail, bad) ==
  LET s0 == [sfd_preinit EXCEPT !.desired = des]
      i == sfd_init(s0, k, d, initFail)
      u == sfd_update(i.S, i.K, bad)
      t == [NoTrace EXCEPT !.ops = u.ops]
  IN IF i.error # OK
     THEN [S |-> i.S, K |-> i.K, lstate |-> "raised",
           last |-> Outcome("listen", i.error, <<>>, NoTrace)]
     ELSE IF u.error # OK
     THEN [S |-> u.S, K |-> u.K, lstate |-> "raised",
           last |-> Outcome("listen", u.error, <<>>, t)]
     ELSE [S |-> u.S, K |-> u.K, lstate |-> "active",
           last |-> Outcome("listen", OK, <<LUserdata(LSL_CLASS)>>, t)]

\* lsl__gc: the finalizer of the userdata.
lsl__gc(s, k) ==
  LET r == sfd_destroy(s, k)
  IN [S |-> r.S, K |-> r.K, lstate |-> "collected",
      last |-> Outcome("gc", OK, <<>>, NoTrace)]

\* Variant of lsl_wait that returns the signal and leaves it pending.
lsl_wait_keep(s, k, eintr, fail, e, bad) ==
  LET r == sfd_query(s, k, eintr, fail, e, bad)
      signo == sfd_diff(r.S.pending, sigemptyset)
  IN IF r.error # OK
     THEN [S |-> r.S, K |-> r.K, last |-> Outcome("wait", r.error, <<>>, r.trace)]
     ELSE IF signo # 0
     THEN [S |-> r.S, K |-> r.K, last |-> Outcome("wait", OK, <<LNumber(signo)>>, r.trace)]
     ELSE [S |-> r.S, K |-> r.K, last |-> Outcome("wait", OK, <<>>, r.trace)]

\* Variant of lsl_wait that looks for the signal to return in polling.
lsl_wait_polling(s, k, eintr, fail, e, bad) ==
  LET r == sfd_query(s, k, eintr, fail, e, bad)
      signo == sfd_diff(r.S.polling, sigemptyset)
  IN IF r.error # OK
     THEN [S |-> r.S, K |-> r.K, last |-> Outcome("wait", r.error, <<>>, r.trace)]
     ELSE IF signo # 0
     THEN [S |-> [r.S EXCEPT !.pending = sigdelset(@, signo)], K |-> r.K,
           last |-> Outcome("wait", OK, <<LNumber(signo)>>, r.trace)]
     ELSE [S |-> r.S, K |-> r.K, last |-> Outcome("wait", OK, <<>>, r.trace)]

\* Variant of lsl_wait_return that takes the signal out of pending before it
\* looks at the error of sfd_query.
lsl_wait_return_taken(r) ==
  LET signo == sfd_diff(r.S.pending, sigemptyset)
      s == [r.S EXCEPT !.pending = sigdelset(@, signo)]
  IN IF r.error # OK
     THEN [S |-> s, K |-> r.K, last |-> Outcome("wait", r.error, <<>>, r.trace)]
     ELSE IF signo # 0
     THEN [S |-> s, K |-> r.K, last |-> Outcome("wait", OK, <<LNumber(signo)>>, r.trace)]
     ELSE [S |-> r.S, K |-> r.K, last |-> Outcome("wait", OK, <<>>, r.trace)]

\* lsl_wait from the return of sfd_query on: r is what sfd_query left.
lsl_wait_return(r) ==
  LET signo == sfd_diff(r.S.pending, sigemptyset)
  IN IF r.error # OK
     THEN [S |-> r.S, K |-> r.K, last |-> Outcome("wait", r.error, <<>>, r.trace)]
     ELSE IF signo # 0
     THEN [S |-> [r.S EXCEPT !.pending = sigdelset(@, signo)], K |-> r.K,
           last |-> Outcome("wait", OK, <<LNumber(signo)>>, r.trace)]
     ELSE [S |-> r.S, K |-> r.K, last |-> Outcome("wait", OK, <<>>, r.trace)]

\* Variant of lsl_wait that picks the signal to return before it calls
\* sfd_query.
lsl_wait_early(s, k, eintr, fail, e, bad) ==
  LET r == sfd_query(s, k, eintr, fail, e, bad)
      signo == sfd_diff(s.pending, sigemptyset)
  IN IF r.error # OK
     THEN [S |-> r.S, K |-> r.K, last |-> Outcome("wait", r.error, <<>>, r.trace)]
     ELSE IF signo # 0
     THEN [S |-> [r.S EXCEPT !.pending = sigdelset(@, signo)], K |-> r.K,
           last |-> Outcome("wait", OK, <<LNumber(signo)>>, r.trace)]
     ELSE [S |-> r.S, K |-> r.K, last |-> Outcome("wait", OK, <<>>, r.trace)]

lsl_wait(s, k, eintr, fail, e, bad) == lsl_wait_return(sfd_query(s, k, eintr, fail, e, bad))

lsl_pollfd(s) == Outcome("pollfd", OK, <<LNumber(s.fd)>>, NoTrace)

\* Variant of lsl_events that also asks for write readiness while a signal is
\* pending.
lsl_events_rw(s) ==
  Outcome("events", OK, <<LString(IF s.pending = {} THEN "r" ELSE "rw")>>, NoTrace)

lsl_events(s) == Outcome("events", OK, <<LString("r")>>, NoTrace)

\* Variant of lsl_timeout that tests polling.
lsl_timeout_polling(s) ==
  IF sfd_diff(s.polling, sigemptyset) # 0
  THEN Outcome("timeout", OK, <<LNumber(0)>>, NoTrace)
  ELSE Outcome("timeout", OK, <<LNil>>, NoTrace)

lsl_timeout(s) ==
  IF sfd_diff(s.pending, sigemptyset) # 0
  THEN Outcome("timeout", OK, <<LNumber(0)>>, NoTrace)
  ELSE Outcome("timeout", OK, <<LNil>>, NoTrace)

\* ---------------------------------------------------------------- actions

\* No delivery is followed.
NoTrack == [signo |-> 0, stage |-> "none"]

Init ==
  /\ S = sfd_preinit
  /\ K = KernelInit
  /\ lstate = "none"
  /\ last = NoCall
  /\ unret = {}
  /\ fresh = FALSE
  /\ failed = FALSE
  /\ track = NoTrack

\* signal.listen(...): the one construction of the listener.  bad ranges over
\* the signals the call attempts a kevent() change for.
Listen ==
  /\ lstate = "none"
  /\ \E des \in SUBSET Signals, d \in Descriptors, initFail \in BOOLEAN :
       \E bad \in des \cup {0} :
         \E r \in {lsl_listen(K, des, d, initFail, bad)} :
            /\ S' = r.S
            /\ K' = r.K
            /\ lstate' = r.lstate
            /\ last' = r.last
            /\ failed' = (r.last.error # OK)
  /\ UNCHANGED <<unret, fresh, track>>

\* The signals a reconciliation of s can attempt a change for.
Diffs(s) == (s.desired \ s.polling) \cup (s.polling \ s.desired)

\* listener:wait()
Wait ==
  /\ lstate = "active"
  /\ \E eintr \in 0..MaxEintr, fail \in BOOLEAN :
       \E e \in (IF fail THEN {0} ELSE Reportable(K)) :
         \E bad \in (IF fail THEN {0} ELSE {0, e} \cup Diffs(S)) :
           \E r \in {lsl_wait(S, K, eintr, fail, e, bad)} :
              /\ S' = r.S
              /\ K' = r.K
              /\ last' = r.last
              /\ failed' = (failed \/ r.last.error # OK)
              /\ unret' = {s \in unret : r.last.ret # <<LNumber(s)>>}
  /\ fresh' = FALSE
  /\ UNCHANGED <<lstate, track>>

\* listener:timeout()
Timeout ==
  /\ lstate = "active"
  /\ last' = lsl_timeout(S)
  /\ UNCHANGED <<S, K, lstate, unret, fresh, failed, track>>

\* listener:pollfd()
Pollfd ==
  /\ lstate = "active"
  /\ last' = lsl_pollfd(S)
  /\ UNCHANGED <<S, K, lstate, unret, fresh, failed, track>>

\* listener:events()
Events ==
  /\ lstate = "active"
  /\ last' = lsl_events(S)
  /\ UNCHANGED <<S, K, lstate, unret, fresh, failed, track>>

\* The collector finalizes the userdata: a listener the caller dropped, or the
\* userdata a failed listen left behind.
Gc ==
  /\ lstate \in {"active", "raised"}
  /\ \E r \in {lsl__gc(S, K)} :
        /\ S' = r.S
        /\ K' = r.K
        /\ lstate' = r.lstate
        /\ last' = r.last
  /\ unret' = {}
  /\ fresh' = FALSE
  /\ UNCHANGED <<failed, track>>

\* The OS delivers a signal to the process.
Deliver ==
  /\ \E signo \in Signals :
       /\ K' = kernel_deliver(K, signo)
       /\ unret' = IF signo \in K.reg THEN unret \cup {signo} ELSE unret
       /\ fresh' = (fresh \/ signo \in K.reg)
  /\ UNCHANGED <<S, lstate, last, failed, track>>

Next == Listen \/ Wait \/ Timeout \/ Pollfd \/ Events \/ Gc \/ Deliver

Spec == Init /\ [][Next]_vars

TypeOK ==
  /\ S.fd \in Descriptors \cup {-1}
  /\ S.desired \subseteq Signals /\ S.polling \subseteq Signals /\ S.pending \subseteq Signals
  /\ K.open \subseteq Descriptors /\ K.reg \subseteq Signals
  /\ lstate \in {"none", "active", "polled", "raised", "collected"}
  /\ track.signo \in Signals \cup {0}
  /\ track.stage \in {"none", "recorded", "fetched"}

\* ------------------------------------------- runs without kernel failure
\*
\* The same listener with the wait call in two steps, its poll and the rest,
\* so that the OS can deliver a signal between the two; no kernel call fails
\* and the caller keeps the listener.  track follows one delivery of a desired
\* signal: "recorded" from its delivery until a poll fetches the signal,
\* "fetched" until a wait returns it.

\* signal.listen(...) with no kernel failure.
LiveListen ==
  /\ lstate = "none"
  /\ \E des \in SUBSET Signals, d \in Descriptors :
       \E r \in {lsl_listen(K, des, d, FALSE, 0)} :
          /\ S' = r.S
          /\ K' = r.K
          /\ lstate' = r.lstate
          /\ last' = r.last
  /\ UNCHANGED <<unret, fresh, failed, track>>

\* listener:wait() up to the call of sfd_update in sfd_query, the kernel
\* reporting e.
LivePollOn(e) ==
  /\ lstate = "active"
  /\ e \in Reportable(K)
  /\ \E eintr \in 0..MaxEintr :
       \E q \in {sfd_query_retry(S, K, eintr, FALSE, e, 0, 0)} :
          /\ S' = q.S
          /\ K' = q.K
          /\ last' = Outcome("poll", OK, <<>>, q.trace)
  /\ lstate' = "polled"
  /\ track' = IF e # 0 /\ track.signo = e /\ track.stage = "recorded"
              THEN [track EXCEPT !.stage = "fetched"]
              ELSE track
  /\ UNCHANGED <<unret, fresh, failed>>

LivePoll == \E e \in Signals \cup {0} : LivePollOn(e)

\* listener:wait() from the call of sfd_update on.
LiveRearm ==
  /\ lstate = "polled"
  /\ \E r \in {lsl_wait_return(sfd_query_update(
                   [S |-> S, K |-> K, trace |-> [f \in DOMAIN NoTrace |-> last[f]]], 0))} :
        /\ S' = r.S
        /\ K' = r.K
        /\ last' = r.last
        /\ track' = IF track.stage = "fetched" /\ r.last.ret = <<LNumber(track.signo)>>
                    THEN NoTrack
                    ELSE track
  /\ lstate' = "active"
  /\ UNCHANGED <<unret, fresh, failed>>

\* The OS delivers a signal to the process; a delivery of a desired signal to
\* a process that has the listener may be the one that is followed.
LiveDeliver ==
  /\ \E signo \in Signals :
       /\ K' = kernel_deliver(K, signo)
       /\ \/ track' = track
          \/ /\ track = NoTrack
             /\ lstate \in {"active", "polled"}
             /\ signo \in S.desired
             /\ track' = [signo |-> signo, stage |-> "recorded"]
  /\ UNCHANGED <<S, lstate, last, unret, fresh, failed>>

LiveNext == LiveListen \/ LivePoll \/ LiveRearm \/ LiveDeliver

\* The steps of LivePoll, of LiveRearm and of LivePollOn(n), told by what they
\* do to lstate and K.
PollStep == lstate = "active" /\ lstate' = "polled"
RearmStep == lstate = "polled" /\ lstate' = "active"
FetchStep(n) ==
  /\ lstate = "active" /\ n \in Triggered(K)
  /\ lstate' = "polled" /\ K' = kevent_fetch(K, n)

\* The caller keeps calling wait and every call runs to its end; the kernel
\* hands out the triggered filters of a queue in the order in which they were
\* triggered, so a filter that stays triggered is reported to some poll.
LiveSpec ==
  /\ Init
  /\ [][LiveNext]_vars
  /\ WF_lstate(PollStep)
  /\ WF_lstate(RearmStep)
  /\ \A n \in Signals : SF_<<lstate, K>>(FetchStep(n))

\* ------------------------------------------------------ sfd_diff on its own
\*
\* sfd_diff applied to two sets drawn from both ends of its scan; the sets are
\* held in S.desired and S.polling, as in the call of sfd_update.

DiffSignals == (1..MaxDiff) \cup ((SIGNO_END - MaxDiff)..(SIGNO_END - 1))

DiffInit ==
  /\ \E a \in SUBSET DiffSignals, b \in SUBSET DiffSignals :
       S = [sfd_preinit EXCEPT !.desired = a, !.polling = b]
  /\ K = KernelInit
  /\ lstate = "none"
  /\ last = NoCall
  /\ unret = {}
  /\ fresh = FALSE
  /\ failed = FALSE
  /\ track = NoTrack

Diff ==
  /\ last = NoCall
  /\ last' = Outcome("sfd_diff", OK, <<LNumber(sfd_diff(S.desired, S.polling))>>, NoTrace)
  /\ UNCHANGED <<S, K, lstate, unret, fresh, failed, track>>

DiffNext == Diff

DiffSpec == DiffInit /\ [][DiffNext]_vars

\* ----------------------------------------------------------------- claims

\* The last call was a wait that returned (raised no error).
WaitOK(o) == o.op = "wait" /\ o.error = OK
\* The signal a wait returned; 0 when it returned no value or o is no returned wait.
Returned(o) == IF WaitOK(o) /\ o.ret # <<>> THEN o.ret[1].v ELSE 0

\* A step of the Wait action that changes the state: the steps that leave
\* last.op = "wait" are those of Wait and of Deliver.
WaitStep == last'.op = "wait" /\ ~Deliver

\* C1: a listen that no kernel call fails ends with polling equal to the set
\* of signals it was given, and exactly those signals have a filter on the
\* kernel queue.
C1_ListenArmsDesired ==
  (last.op = "listen" /\ last.error = OK)
    => /\ lstate = "active"
       /\ S.polling = S.desired
       /\ K.reg = S.desired
       /\ last.ops = [i \in 1..Cardinality(S.desired) |->
                        <<"EV_ADD", CHOOSE s \in S.desired :
                                      Cardinality({x \in S.desired : x < s}) = i - 1>>]

C1_Witness ==
  last.op = "listen" /\ last.error = OK /\ S.desired = Signals /\ S.polling = Signals

\* C2: a wait that returns hands out the lowest-numbered signal among those
\* pending after its drain (the signals pending before the call and the one
\* its poll fetched) and removes exactly that one; it returns no value exactly
\* when nothing is pending.  So successive waits with nothing newly fetched
\* return the pending signals in ascending order and then none.
C2_DrainingOrder ==
  [][(WaitStep /\ WaitOK(last'))
       => LET P == S.pending \cup ({last'.event} \ {0})
          IN IF P = {}
             THEN last'.ret = <<>> /\ S'.pending = {}
             ELSE /\ Returned(last') = Min(P)
                  /\ S'.pending = P \ {Min(P)}
                  /\ \A p \in S'.pending : Returned(last') < p]_vars

C2_Witness ==
  Returned(last) = 1 /\ last.event = 0 /\ S.pending = {2}

\* C3: when the poll of a wait fetches a signal that was delivered two or
\* more times and the wait returns it, nothing of those deliveries is left:
\* until the signal is delivered again it is neither pending nor recorded in
\* the kernel, so it is returned once for them.  (pending is a sigset_t: one
\* bit per signal number.)
C3_Coalescing ==
  \A n \in Signals :
    (WaitOK(last) /\ last.event = n /\ last.data >= 2 /\ Returned(last) = n /\ n \notin unret)
      => (n \notin S.pending /\ K.data[n] = 0)

C3_Witness ==
  WaitOK(last) /\ last.event = 1 /\ last.data >= 2 /\ Returned(last) = 1 /\ 1 \notin unret

\* C4 as stated: when listen raises, no listener is returned and no
\* descriptor is open.
C4_Original ==
  lstate = "raised" => (last.ret = <<>> /\ K.open = {})

\* C4 amended: when listen raises, no listener is returned; if kqueue() failed
\* there is no descriptor; if arming failed the descriptor is still open, owned
\* by the abandoned userdata, and it is closed when the collector runs the
\* finalizer.
C4_FailedListen ==
  /\ lstate = "raised"
       => /\ last.op = "listen" /\ last.error # OK /\ last.ret = <<>>
          /\ (last.error = EMFILE) = (S.fd = -1)
          /\ K.open = (IF S.fd = -1 THEN {} ELSE {S.fd})
  /\ lstate = "collected" => (K.open = {} /\ S = sfd_preinit)

C4_Witness ==
  lstate = "raised" /\ last.error = ENOMEM /\ S.fd \in K.open

\* C5: polling is a subset of desired in every state, and after every call
\* whose reconciliation completed without a kernel error polling equals
\* desired.
C5_ArmedSubsetDesired ==
  /\ S.polling \subseteq S.desired
  /\ (last.op \in {"listen", "wait"} /\ last.error = OK) => S.polling = S.desired

C5_Witness ==
  WaitOK(last) /\ last.event # 0 /\ last.ops # <<>> /\ S.polling = S.desired

\* C6: every pending signal is a desired one, and so is every signal a wait
\* returns, whatever the OS delivers.
C6_PendingWasDesired ==
  /\ S.pending \subseteq S.desired
  /\ Returned(last) # 0 => Returned(last) \in S.desired

C6_Witness ==
  Returned(last) = 2 /\ S.desired = {2}

\* C7: timeout returns the number 0 exactly when a signal is pending and nil
\* exactly when none is.
C7_Timeout ==
  last.op = "timeout"
    => /\ (last.ret = <<LNumber(0)>>) = (S.pending # {})
       /\ (last.ret = <<LNil>>) = (S.pending = {})

C7_Witness ==
  last.op = "timeout" /\ last.ret = <<LNumber(0)>> /\ S.pending # {}

C9_EmptyNeverBlocks ==
  /\ last.timeouts \subseteq {ZeroTimespec}
  /\ ~last.blocked
  /\ last.op = "wait" => last.polls >= 1 /\ last.timeouts = {ZeroTimespec}
  /\ (last.op = "wait" /\ S.desired = {})
       => /\ last.ret = <<>> /\ last.event = 0 /\ last.ops = <<>>
          /\ last.error \in {OK, EBADF}
          /\ S.pending = {}

C9_Witness ==
  lstate = "active" /\ S.desired = {} /\ WaitOK(last) /\ last.ret = <<>> /\ last.polls >= 1

\* C10 as stated: when a call has run its reconciliation and the next call is
\* a wait whose poll fetches nothing, the reconciliation of that wait attempts
\* no kernel change and leaves polling as it was.
C10_Original ==
  [][(WaitStep /\ last.op \in {"listen", "wait"} /\ last.error # EBADF
               /\ last'.event = 0 /\ last'.error # EBADF)
       => /\ last'.ops = <<>>
          /\ S'.polling = S.polling]_vars

\* C10 amended: when a call has completed its reconciliation without error
\* and the next call is a wait whose poll fetches nothing, the reconciliation
\* of that wait attempts no kernel change, completes, and leaves polling and
\* the kernel's filters as they were.
C10_ReconcileIdempotent ==
  [][(WaitStep /\ last.op \in {"listen", "wait"} /\ last.error = OK
               /\ last'.event = 0 /\ last'.error # EBADF)
       => /\ last'.ops = <<>>
          /\ last'.error = OK
          /\ S'.polling = S.polling
          /\ K'.reg = K.reg]_vars

C10_Witness ==
  WaitOK(last) /\ last.event = 0 /\ last.ops = <<>> /\ S.polling = Signals
    /\ K.reg = Signals

\* C11: a poll of a wait that ends with EINTR is followed by another poll, so
\* every wait ends its polling with a poll that was not interrupted, and no
\* wait raises EINTR; when that last poll fails with another errno the wait
\* raises that errno, returns no value, and changes nothing in the listener.
C11_EintrRetried ==
  last.op = "wait"
    => /\ last.error # EINTR
       /\ last.pollerr # EINTR
       /\ last.polls = last.eintrs + 1
       /\ last.pollerr # OK => (last.error = last.pollerr /\ last.ret = <<>>
                                  /\ last.event = 0 /\ last.ops = <<>>)

C11_Witness ==
  WaitOK(last) /\ last.eintrs >= 1 /\ last.polls = last.eintrs + 1 /\ Returned(last) = 1

\* C12: before listen there is no descriptor: fd is -1 and nothing is open.
\* The finalizer of an active listener finds fd open, closes it, which takes
\* the queue and its filters with it, and leaves fd = -1 and desired, polling
\* and pending empty, whatever they held.
C12_Lifecycle ==
  /\ [](lstate = "none" => (S.fd = -1 /\ K.open = {}))
  /\ [][(lstate = "active" /\ lstate' = "collected")
          => /\ S.fd \in K.open
             /\ K'.open = K.open \ {S.fd}
             /\ K'.reg = {}
             /\ S'.fd = -1
             /\ S'.desired = {} /\ S'.polling = {} /\ S'.pending = {}]_vars

C12_Witness ==
  lstate = "collected" /\ last.op = "gc" /\ ~failed /\ S.fd = -1 /\ K.open = {}

\* A step of Listen or of Wait that changes the state.
CallStep == last'.op \in {"listen", "wait"} /\ ~Deliver

\* One EV_ADD per signal of set, in ascending order of signal number.
AscendingAdds(set) ==
  [i \in 1..Cardinality(set) |->
     <<"EV_ADD", CHOOSE s \in set : Cardinality({x \in set : x < s}) = i - 1>>]

\* C13: a reconciliation attempts its kernel changes in ascending order of
\* signal number.  When the kernel rejects the EV_ADD of signal k the call
\* raises that error; k was the last change attempted, so none was attempted
\* for a difference above k; the differences below k are in polling and have
\* their filter; k and the differences above it are not in polling.
C13_PartialReconcile ==
  [][CallStep =>
       LET D == S'.desired \ (S.polling \ {last'.event})
       IN /\ last'.error = OK => last'.ops = AscendingAdds(D)
          /\ last'.error = ENOMEM =>
               /\ last'.ops # <<>>
               /\ LET k == last'.ops[Len(last'.ops)][2]
                      Lo == {d \in D : d < k}
                  IN /\ k \in D
                     /\ last'.ops = AscendingAdds(Lo \cup {k})
                     /\ S'.polling = (S.polling \ {last'.event}) \cup Lo
                     /\ Lo \subseteq K'.reg
                     /\ k \notin S'.polling
                     /\ \A d \in D : d > k => d \notin S'.polling
                     /\ last'.ret = <<>>]_vars

C13_Witness ==
  /\ last.op = "listen" /\ last.error = ENOMEM
  /\ last.ops = <<<<"EV_ADD", 1>>, <<"EV_ADD", 2>>>>
  /\ S.desired = {1, 2} /\ S.polling = {1} /\ K.reg = {1}

\* C14: the drain of a wait gives every poll the zero timeout, ends with the
\* one poll that is not interrupted, and fetches at most one signal: pending
\* after the drain (what the wait leaves pending and what it returns) is
\* pending before the call plus the signal N fetched.  N is taken out of
\* polling, so it is in polling afterwards only through an EV_ADD of this
\* call, and it is when the reconciliation completes: a wait that raises no
\* error ends with polling = desired.  A wait whose poll fails changes nothing.
C14_DrainStep ==
  [][WaitStep =>
       LET N == last'.event
           PostDrain == S'.pending \cup ({Returned(last')} \ {0})
       IN /\ last'.timeouts = {ZeroTimespec} /\ ~last'.blocked
          /\ last'.polls = last'.eintrs + 1
          /\ PostDrain = S.pending \cup ({N} \ {0})
          /\ Cardinality(PostDrain \ S.pending) <= 1
          /\ N # 0 =>
               /\ N \in Triggered(K) /\ K'.data[N] = 0
               /\ N \in S'.polling
                    => \E i \in 1..Len(last'.ops) : last'.ops[i] = <<"EV_ADD", N>>
               /\ last'.error = OK => N \in S'.polling
          /\ last'.error = OK => S'.polling = S'.desired
          /\ last'.pollerr # OK => (S' = S /\ K' = K)]_vars

C14_Witness ==
  /\ WaitOK(last) /\ last.event = 2 /\ Returned(last) = 2
  /\ last.ops = <<<<"EV_ADD", 2>>>>
  /\ S.polling = Signals /\ S.desired = Signals /\ S.pending = {}

\* C15: in runs without kernel failure in which the caller keeps calling
\* wait, every delivery of a desired signal N to a process that has the
\* listener, the deliveries between the poll and the sfd_update of a wait
\* included, is followed by a poll that fetches N and a wait that returns N.
C15_NoLostSignal ==
  \A n \in Signals :
    (track.signo = n) ~> (track = NoTrack /\ Returned(last) = n)

\* N is delivered between the poll of a wait that fetched N and its sfd_update.
C15_Witness ==
  /\ lstate = "polled" /\ last.event = 1 /\ S.pending = {1}
  /\ track.signo = 1 /\ track.stage = "recorded" /\ 1 \in Triggered(K)

\* C16: for sets a and b of signal numbers within the scan (1 to 31),
\* sfd_diff(a, b) is 0 exactly when a = b, and otherwise it is a signal that
\* is a member of exactly one of a and b while every lower signal is a member
\* of both or of neither.
C16_FirstDifference ==
  last.op = "sfd_diff"
    => LET a == S.desired
           b == S.polling
           r == last.ret[1].v
       IN /\ (r = 0) = (a = b)
          /\ r # 0 => /\ r \in 1..(SIGNO_END - 1)
                      /\ (r \in a) # (r \in b)
                      /\ \A x \in 1..(r - 1) : (x \in a) = (x \in b)

C16_Witness ==
  /\ last.op = "sfd_diff" /\ last.ret = <<LNumber(SIGNO_END - 1)>>
  /\ 1 \in S.desired /\ 1 \in S.polling
  /\ (SIGNO_END - 1) \in S.polling /\ (SIGNO_END - 1) \notin S.desired

\* C17: pollfd, events and timeout leave the struct (fd, desired, polling,
\* pending) and the kernel as they are and make no kernel call; pollfd returns
\* fd, and events returns "r" whatever the state of the listener.
C17_PassiveQueries ==
  [][(last'.op \in {"pollfd", "events", "timeout"} /\ ~Deliver)
       => /\ S' = S
          /\ K' = K
          /\ last'.error = OK
          /\ last'.polls = 0 /\ last'.ops = <<>> /\ last'.event = 0
          /\ last'.op = "pollfd" => last'.ret = <<LNumber(S.fd)>>
          /\ last'.op = "events" => last'.ret = <<LString("r")>>]_vars

C17_Witness ==
  last.op = "events" /\ last.ret = <<LString("r")>> /\ S.pending # {} /\ S.polling # S.desired

\* C18: a wait that raises an error (the poll failed, or a kevent() change of
\* the reconciliation was rejected after the poll fetched a signal) returns no
\* value and takes nothing out of pending: pending afterwards is pending
\* before plus the signal fetched.  A signal leaves pending only by being
\* returned by a wait that raises no error; the wait that follows a failed
\* one and raises no error returns the signal the failed wait fetched or a
\* lower-numbered one, and in the latter case the fetched one is still pending.
C18_FailedWaitKeepsPending ==
  [][WaitStep =>
       /\ last'.error # OK
            => /\ last'.ret = <<>>
               /\ S'.pending = S.pending \cup ({last'.event} \ {0})
       /\ \A n \in S.pending : n \notin S'.pending => Returned(last') = n
       /\ (last.op = "wait" /\ last.error # OK /\ last.event # 0 /\ WaitOK(last'))
            => /\ Returned(last') \in 1..last.event
               /\ Returned(last') # last.event => last.event \in S'.pending]_vars

C18_Witness ==
  last.op = "wait" /\ last.error = ENOMEM /\ last.event = 2 /\ last.ret = <<>>
    /\ S.pending = {1, 2}

\* C19: as long as no kernel call of the listener has failed, pending is empty
\* in every state between two calls (a wait fetches at most one signal and
\* returns it in the same call), so timeout returns nil; timeout returns 0
\* only after a wait has raised an error.
C19_PendingEmptyBetweenCalls ==
  /\ ~failed => S.pending = {}
  /\ (last.op = "timeout" /\ ~failed) => last.ret = <<LNil>>
  /\ (last.op = "timeout" /\ last.ret = <<LNumber(0)>>) => (failed /\ lstate = "active")

C19_Witness ==
  /\ lstate = "active" /\ ~failed /\ Triggered(K) = Signals
  /\ last.op = "timeout" /\ last.ret = <<LNil>> /\ S.pending = {}

====
